---- MODULE Spec2Model ----
(***************************************************************************)
(* Model of src/main.py: the smart-plant monitor.  One main thread runs    *)
(* main() (connect, loop_start, then the read / send_alerts / print /      *)
(* publish / sleep loop inside try/except/finally); the paho-mqtt          *)
(* background thread started by loop_start() runs on_connect and           *)
(* on_message.                                                             *)
(*                                                                         *)
(* Numbers.  Temperature and light intensity are real numbers in the       *)
(* program; they are modelled in hundredths (Scale), so 15 C is 1500 and   *)
(* 0.2 is 20.  Soil moisture is the ADC value scaled to 0..1023.           *)
(* Python's None is the empty sequence, a present value x is <<x>>.        *)
(***************************************************************************)
EXTENDS Integers, Sequences, FiniteSets

VARIABLES
    pc,               \* position of the main thread in main()
    humidity,         \* main(): local humidity (None or a value)
    temperature,      \* main(): local temperature (None or a value)
    soil_moisture,    \* main(): local soil_moisture
    light_intensity,  \* main(): local light_intensity
    alerts,           \* main(): local alerts = return value of send_alerts
    idx,              \* position of the for loop over alerts
    stdout,           \* lines written by print() in the main thread, in order
    netout,           \* lines written by print() in the network thread, in order
    netThread,        \* paho network thread: "none", "running", "stopped"
    subscribed,       \* client.subscribe(TOPIC) has been issued by on_connect
    connackSeen,      \* on_connect has run
    inflight,         \* messages the broker still has to deliver on TOPIC
    publishCalls,     \* client.publish calls that returned, in order
    clientCalls,      \* connection-lifecycle calls made on the client, in order
    exitCode,         \* None while running, else the process exit status
    reads,            \* history: the snapshots read, one per iteration
    trace,            \* history: read / evaluate / publish / sleep events
    intAt,            \* history: where the KeyboardInterrupt arrived (None if not)
    excAt             \* history: where an Exception was raised (None if not)

vars == <<pc, humidity, temperature, soil_moisture, light_intensity, alerts,
          idx, stdout, netout, netThread, subscribed, connackSeen, inflight,
          publishCalls, clientCalls, exitCode, reads, trace, intAt, excAt>>

\* what the main thread owns and reads
mainVars == <<pc, humidity, temperature, soil_moisture, light_intensity,
              alerts, idx, publishCalls, clientCalls, exitCode, reads, trace,
              intAt, excAt>>

-----------------------------------------------------------------------------
\* Bounds of the model
MaxIter == 2          \* iterations of the while loop that are explored
TempSpan == 2         \* hundredths explored on each side of a temperature bound
SoilSpan == 2         \* raw units explored on each side of the moisture threshold
LightSpan == 2        \* hundredths explored on each side of the light minimum

\* Program constants
Scale == 100
MOISTURE_THRESHOLD == 300
TEMP_LOW == 15 * Scale
TEMP_HIGH == 30 * Scale
LIGHT_MIN == 20
SLEEP_SECONDS == 60
TOPIC == "smart-plant/monitoring"

None == <<>>
Some(x) == <<x>>
IsNone(v) == v = <<>>
Val(v) == v[1]

-----------------------------------------------------------------------------
\* The texts of the program
SOIL_TEXT == "Soil is too dry. Consider watering the plant."
LIGHT_TEXT == "Plant needs more light."
DHT_FAIL_TEXT == "Failed to retrieve data from DHT sensor"
TERMINATE_TEXT == "Terminating the program."
ERROR_TEXT == "An error occurred: "
CONNECTED_TEXT == "Connected with result code "

\* f"{temperature:.2f}" of a value given in hundredths: sign, integer part, two digits
Format2f(t) ==
    LET a == IF t < 0 THEN -t ELSE t
    IN  <<IF t < 0 THEN "-" ELSE "", a \div Scale, a % Scale>>

\* a string without a number in it
Text(s) == [text |-> s, num |-> None]

\* an alert string: its fixed text and, for the temperature alert, the number
SoilAlert == Text(SOIL_TEXT)
LightAlert == Text(LIGHT_TEXT)
TempAlert(t) ==
    [text |-> IF t < TEMP_LOW THEN "Temperature is too low. Current temp: "
                              ELSE "Temperature is too high. Current temp: ",
     num |-> Some(Format2f(t))]

\* a line on stdout: which print statement wrote it, and the string written
\* (for on_message: the payload, after the topic)
Line(tag, body) == [tag |-> tag, body |-> body]

\* variant of send_alerts_ret: the sensor failure is returned as an alert
send_alerts_ret_diagAlert(h, t, s, l) ==
    IF IsNone(h) \/ IsNone(t)
    THEN Some(<<Text(DHT_FAIL_TEXT)>>)
    ELSE LET a0 == <<>>
             a1 == IF s > MOISTURE_THRESHOLD THEN Append(a0, SoilAlert) ELSE a0
             a2 == IF Val(t) < TEMP_LOW \/ Val(t) > TEMP_HIGH
                   THEN Append(a1, TempAlert(Val(t))) ELSE a1
             a3 == IF l < LIGHT_MIN THEN Append(a2, LightAlert) ELSE a2
         IN  Some(a3)

\* variant of send_alerts_ret: the bounds themselves raise the alerts
send_alerts_ret_inclusive(h, t, s, l) ==
    IF IsNone(h) \/ IsNone(t)
    THEN None
    ELSE LET a0 == <<>>
             a1 == IF s >= MOISTURE_THRESHOLD THEN Append(a0, SoilAlert) ELSE a0
             a2 == IF Val(t) <= TEMP_LOW \/ Val(t) >= TEMP_HIGH
                   THEN Append(a1, TempAlert(Val(t))) ELSE a1
             a3 == IF l <= LIGHT_MIN THEN Append(a2, LightAlert) ELSE a2
         IN  Some(a3)

\* send_alerts: the value it returns (None, or <<list>>)
send_alerts_ret(h, t, s, l) ==
    IF IsNone(h) \/ IsNone(t)
    THEN None
    ELSE LET a0 == <<>>
             a1 == IF s > MOISTURE_THRESHOLD THEN Append(a0, SoilAlert) ELSE a0
             a2 == IF Val(t) < TEMP_LOW \/ Val(t) > TEMP_HIGH
                   THEN Append(a1, TempAlert(Val(t))) ELSE a1
             a3 == IF l < LIGHT_MIN THEN Append(a2, LightAlert) ELSE a2
         IN  Some(a3)

\* send_alerts: the lines it prints
send_alerts_out(h, t, s, l) ==
    IF IsNone(h) \/ IsNone(t) THEN <<Line("diag", Text(DHT_FAIL_TEXT))>> ELSE <<>>

\* truth value of `if alerts:` -- None and the empty list are both false
Truthy(a) == ~IsNone(a) /\ Len(Val(a)) > 0

-----------------------------------------------------------------------------
\* Sensor values explored by the loop specification
\* (read_retry gives both DHT values or neither)
SnapshotSamples ==
    {<<None, None, MOISTURE_THRESHOLD + 1, LIGHT_MIN - 1>>,
     <<Some(50), Some(TEMP_LOW), MOISTURE_THRESHOLD, LIGHT_MIN>>,
     <<Some(50), Some(TEMP_LOW - 1), MOISTURE_THRESHOLD + 1, LIGHT_MIN - 1>>,
     <<Some(50), Some(TEMP_HIGH + 1), MOISTURE_THRESHOLD, LIGHT_MIN>>}

\* Arguments explored by the specification of send_alerts alone
OptHumidity == {None, Some(50)}
OptTemperature ==
    {None} \cup {Some(t) : t \in (TEMP_LOW - TempSpan)..(TEMP_LOW + TempSpan)}
           \cup {Some(t) : t \in (TEMP_HIGH - TempSpan)..(TEMP_HIGH + TempSpan)}
SoilArgs == (MOISTURE_THRESHOLD - SoilSpan)..(MOISTURE_THRESHOLD + SoilSpan)
LightArgs == (LIGHT_MIN - LightSpan)..(LIGHT_MIN + LightSpan)

\* positions of the main thread inside the try block
TryPcs == {"read", "evaluate", "check", "print", "publish", "sleep"}

Event(ev, it, body) == [ev |-> ev, it |-> it, body |-> body]

-----------------------------------------------------------------------------
Init ==
    /\ pc = "connect"
    /\ humidity = None
    /\ temperature = None
    /\ soil_moisture = 0
    /\ light_intensity = 0
    /\ alerts = None
    /\ idx = 0
    /\ stdout = <<>>
    /\ netout = <<>>
    /\ netThread = "none"
    /\ subscribed = FALSE
    /\ connackSeen = FALSE
    /\ inflight = <<>>
    /\ publishCalls = <<>>
    /\ clientCalls = <<>>
    /\ exitCode = None
    /\ reads = <<>>
    /\ trace = <<>>
    /\ intAt = None
    /\ excAt = None

\* client = mqtt.Client(); ...; client.connect(BROKER_ADDRESS, 1883, 60) succeeds
Connect ==
    /\ pc = "connect"
    /\ pc' = "loop_start"
    /\ clientCalls' = Append(clientCalls, "connect")
    /\ UNCHANGED <<humidity, temperature, soil_moisture, light_intensity,
                   alerts, idx, stdout, netout, netThread, subscribed, connackSeen,
                   inflight, publishCalls, exitCode, reads, trace, intAt, excAt>>

\* client.connect raises (broker unreachable): outside the try, the process dies
ConnectFail ==
    /\ pc = "connect"
    /\ pc' = "done"
    /\ exitCode' = Some(1)
    /\ UNCHANGED <<humidity, temperature, soil_moisture, light_intensity,
                   alerts, idx, stdout, netout, netThread, subscribed, connackSeen,
                   inflight, publishCalls, clientCalls, reads, trace, intAt,
                   excAt>>

\* client.loop_start()
LoopStart ==
    /\ pc = "loop_start"
    /\ pc' = "read"
    /\ netThread' = "running"
    /\ clientCalls' = Append(clientCalls, "loop_start")
    /\ UNCHANGED <<humidity, temperature, soil_moisture, light_intensity,
                   alerts, idx, stdout, netout, subscribed, connackSeen, inflight,
                   publishCalls, exitCode, reads, trace, intAt, excAt>>

\* humidity, temperature, soil_moisture, light_intensity = read_environmental_data()
Read ==
    /\ pc = "read"
    /\ Len(reads) < MaxIter
    /\ \E d \in SnapshotSamples :
          /\ humidity' = d[1]
          /\ temperature' = d[2]
          /\ soil_moisture' = d[3]
          /\ light_intensity' = d[4]
          /\ reads' = Append(reads, d)
    /\ trace' = Append(trace, Event("read", Len(reads) + 1, None))
    /\ pc' = "evaluate"
    /\ UNCHANGED <<alerts, idx, stdout, netout, netThread, subscribed, connackSeen,
                   inflight, publishCalls, clientCalls, exitCode, intAt, excAt>>

\* variant of Evaluate: the sensor failure is raised instead of reported
Evaluate_raiseOnNone ==
    /\ pc = "evaluate"
    /\ IF IsNone(humidity) \/ IsNone(temperature)
       THEN /\ pc' = "except_exc"
            /\ excAt' = Some(pc)
            /\ UNCHANGED <<alerts, stdout>>
       ELSE /\ pc' = "check"
            /\ alerts' = send_alerts_ret(humidity, temperature, soil_moisture,
                                         light_intensity)
            /\ stdout' = stdout
            /\ excAt' = excAt
    /\ trace' = Append(trace, Event("evaluate", Len(reads), None))
    /\ UNCHANGED <<humidity, temperature, soil_moisture, light_intensity, idx,
                   netout, netThread, subscribed, connackSeen, inflight,
                   publishCalls, clientCalls, exitCode, reads, intAt>>

\* alerts = send_alerts(humidity, temperature, soil_moisture, light_intensity)
Evaluate ==
    /\ pc = "evaluate"
    /\ alerts' = send_alerts_ret(humidity, temperature, soil_moisture, light_intensity)
    /\ stdout' = stdout \o send_alerts_out(humidity, temperature, soil_moisture,
                                           light_intensity)
    /\ trace' = Append(trace, Event("evaluate", Len(reads), None))
    /\ pc' = "check"
    /\ UNCHANGED <<humidity, temperature, soil_moisture, light_intensity, idx,
                   netout, netThread, subscribed, connackSeen, inflight, publishCalls,
                   clientCalls, exitCode, reads, intAt, excAt>>

\* variant of CheckAlerts: without alerts the loop starts over at once
CheckAlerts_skipSleep ==
    /\ pc = "check"
    /\ IF Truthy(alerts)
       THEN pc' = "print" /\ idx' = 1
       ELSE pc' = "read" /\ idx' = idx
    /\ UNCHANGED <<humidity, temperature, soil_moisture, light_intensity,
                   alerts, stdout, netout, netThread, subscribed, connackSeen,
                   inflight, publishCalls, clientCalls, exitCode, reads, trace,
                   intAt, excAt>>

\* if alerts: for alert in alerts: ...
CheckAlerts ==
    /\ pc = "check"
    /\ IF Truthy(alerts)
       THEN pc' = "print" /\ idx' = 1
       ELSE pc' = "sleep" /\ idx' = idx
    /\ UNCHANGED <<humidity, temperature, soil_moisture, light_intensity,
                   alerts, stdout, netout, netThread, subscribed, connackSeen, inflight,
                   publishCalls, clientCalls, exitCode, reads, trace, intAt,
                   excAt>>

\* variant of PrintAlert: the alert is not printed
PrintAlert_silent ==
    /\ pc = "print"
    /\ pc' = "publish"
    /\ UNCHANGED <<humidity, temperature, soil_moisture, light_intensity,
                   alerts, idx, stdout, netout, netThread, subscribed,
                   connackSeen, inflight, publishCalls, clientCalls, exitCode,
                   reads, trace, intAt, excAt>>

\* print(alert)
PrintAlert ==
    /\ pc = "print"
    /\ stdout' = Append(stdout, Line("alert", Val(alerts)[idx]))
    /\ pc' = "publish"
    /\ UNCHANGED <<humidity, temperature, soil_moisture, light_intensity,
                   alerts, idx, netout, netThread, subscribed, connackSeen, inflight,
                   publishCalls, clientCalls, exitCode, reads, trace, intAt,
                   excAt>>

\* client.publish(TOPIC, alert) returns; rc is ignored.  A message accepted
\* by the broker comes back to this client when it is subscribed to TOPIC.
Publish ==
    /\ pc = "publish"
    /\ \E rc \in {"ok", "fail"} :
          /\ publishCalls' = Append(publishCalls,
                                    [payload |-> Val(alerts)[idx], rc |-> rc])
          /\ inflight' = IF rc = "ok" /\ subscribed
                         THEN Append(inflight, Val(alerts)[idx])
                         ELSE inflight
    /\ trace' = Append(trace, Event("publish", Len(reads), Some(Val(alerts)[idx])))
    /\ IF idx < Len(Val(alerts))
       THEN idx' = idx + 1 /\ pc' = "print"
       ELSE idx' = idx /\ pc' = "sleep"
    /\ UNCHANGED <<humidity, temperature, soil_moisture, light_intensity,
                   alerts, stdout, netout, netThread, subscribed, connackSeen,
                   clientCalls, exitCode, reads, intAt, excAt>>

\* time.sleep(60) runs to its end
Sleep ==
    /\ pc = "sleep"
    /\ trace' = Append(trace, Event("sleep", Len(reads), Some(SLEEP_SECONDS)))
    /\ pc' = "read"
    /\ UNCHANGED <<humidity, temperature, soil_moisture, light_intensity,
                   alerts, idx, stdout, netout, netThread, subscribed, connackSeen,
                   inflight, publishCalls, clientCalls, exitCode, reads, intAt,
                   excAt>>

\* SIGINT: Python raises KeyboardInterrupt in the main thread at whatever
\* statement of the try block is executing.  The operator's interrupt is
\* modelled while the loop runs; a signal during the start-up before the try
\* or a second one during the handlers and the finally block is not.
KeyboardInterrupt ==
    /\ pc \in TryPcs
    /\ intAt' = Some(pc)
    /\ pc' = "except_kbd"
    /\ UNCHANGED <<humidity, temperature, soil_moisture, light_intensity,
                   alerts, idx, stdout, netout, netThread, subscribed, connackSeen,
                   inflight, publishCalls, clientCalls, exitCode, reads, trace,
                   excAt>>

\* a statement of the try block raises an Exception
RaiseException ==
    /\ pc \in TryPcs
    /\ excAt' = Some(pc)
    /\ pc' = "except_exc"
    /\ UNCHANGED <<humidity, temperature, soil_moisture, light_intensity,
                   alerts, idx, stdout, netout, netThread, subscribed, connackSeen,
                   inflight, publishCalls, clientCalls, exitCode, reads, trace,
                   intAt>>

\* variant of ExceptKeyboardInterrupt: the iteration is finished first
ExceptKeyboardInterrupt_resume ==
    /\ pc = "except_kbd"
    /\ stdout' = Append(stdout, Line("term", Text(TERMINATE_TEXT)))
    /\ pc' = IF Val(intAt) \in {"print", "publish"} THEN Val(intAt) ELSE "loop_stop"
    /\ UNCHANGED <<humidity, temperature, soil_moisture, light_intensity,
                   alerts, idx, netout, netThread, subscribed, connackSeen,
                   inflight, publishCalls, clientCalls, exitCode, reads, trace,
                   intAt, excAt>>

\* except KeyboardInterrupt: print("Terminating the program.")
ExceptKeyboardInterrupt ==
    /\ pc = "except_kbd"
    /\ stdout' = Append(stdout, Line("term", Text(TERMINATE_TEXT)))
    /\ pc' = "loop_stop"
    /\ UNCHANGED <<humidity, temperature, soil_moisture, light_intensity,
                   alerts, idx, netout, netThread, subscribed, connackSeen, inflight,
                   publishCalls, clientCalls, exitCode, reads, trace, intAt,
                   excAt>>

\* variant of ExceptException: the failed iteration is skipped, the loop goes on
ExceptException_resume ==
    /\ pc = "except_exc"
    /\ stdout' = Append(stdout, Line("error", Text(ERROR_TEXT)))
    /\ pc' = "sleep"
    /\ UNCHANGED <<humidity, temperature, soil_moisture, light_intensity,
                   alerts, idx, netout, netThread, subscribed, connackSeen,
                   inflight, publishCalls, clientCalls, exitCode, reads, trace,
                   intAt, excAt>>

\* except Exception as e: print(f"An error occurred: {e}")
ExceptException ==
    /\ pc = "except_exc"
    /\ stdout' = Append(stdout, Line("error", Text(ERROR_TEXT)))
    /\ pc' = "loop_stop"
    /\ UNCHANGED <<humidity, temperature, soil_moisture, light_intensity,
                   alerts, idx, netout, netThread, subscribed, connackSeen, inflight,
                   publishCalls, clientCalls, exitCode, reads, trace, intAt,
                   excAt>>

\* finally: client.loop_stop()
LoopStop ==
    /\ pc = "loop_stop"
    /\ netThread' = "stopped"
    /\ clientCalls' = Append(clientCalls, "loop_stop")
    /\ pc' = "disconnect"
    /\ UNCHANGED <<humidity, temperature, soil_moisture, light_intensity,
                   alerts, idx, stdout, netout, subscribed, connackSeen, inflight,
                   publishCalls, exitCode, reads, trace, intAt, excAt>>

\* variant of Disconnect: the client is disconnected only after an interrupt
Disconnect_onlyOnInterrupt ==
    /\ pc = "disconnect"
    /\ clientCalls' = IF IsNone(intAt) THEN clientCalls
                      ELSE Append(clientCalls, "disconnect")
    /\ pc' = "exit"
    /\ UNCHANGED <<humidity, temperature, soil_moisture, light_intensity,
                   alerts, idx, stdout, netout, netThread, subscribed,
                   connackSeen, inflight, publishCalls, exitCode, reads, trace,
                   intAt, excAt>>

\* finally: client.disconnect()
Disconnect ==
    /\ pc = "disconnect"
    /\ clientCalls' = Append(clientCalls, "disconnect")
    /\ pc' = "exit"
    /\ UNCHANGED <<humidity, temperature, soil_moisture, light_intensity,
                   alerts, idx, stdout, netout, netThread, subscribed, connackSeen,
                   inflight, publishCalls, exitCode, reads, trace, intAt, excAt>>

\* variant of Exit: a caught exception is turned into exit status 1
Exit_errorStatus ==
    /\ pc = "exit"
    /\ exitCode' = IF IsNone(excAt) THEN Some(0) ELSE Some(1)
    /\ pc' = "done"
    /\ UNCHANGED <<humidity, temperature, soil_moisture, light_intensity,
                   alerts, idx, stdout, netout, netThread, subscribed,
                   connackSeen, inflight, publishCalls, clientCalls, reads,
                   trace, intAt, excAt>>

\* main() returns and the interpreter exits: no exception is pending
Exit ==
    /\ pc = "exit"
    /\ exitCode' = Some(0)
    /\ pc' = "done"
    /\ UNCHANGED <<humidity, temperature, soil_moisture, light_intensity,
                   alerts, idx, stdout, netout, netThread, subscribed, connackSeen,
                   inflight, publishCalls, clientCalls, reads, trace, intAt,
                   excAt>>

\* network thread: def on_connect(client, userdata, flags, rc)
on_connect ==
    /\ netThread = "running"
    /\ ~connackSeen
    /\ connackSeen' = TRUE
    /\ netout' = Append(netout, Line("connected", Text(CONNECTED_TEXT)))
    /\ subscribed' = TRUE
    /\ UNCHANGED <<stdout, netThread, inflight>>
    /\ UNCHANGED mainVars

\* variant of on_message: the received alert is published again
on_message_republish ==
    /\ netThread = "running"
    /\ inflight # <<>>
    /\ netout' = Append(netout, Line("msg", Head(inflight)))
    /\ publishCalls' = Append(publishCalls, [payload |-> Head(inflight), rc |-> "ok"])
    /\ inflight' = Append(Tail(inflight), Head(inflight))
    /\ UNCHANGED <<pc, humidity, temperature, soil_moisture, light_intensity,
                   alerts, idx, stdout, netThread, subscribed, connackSeen,
                   clientCalls, exitCode, reads, trace, intAt, excAt>>

\* network thread: def on_message(client, userdata, msg)
on_message ==
    /\ netThread = "running"
    /\ inflight # <<>>
    /\ netout' = Append(netout, Line("msg", Head(inflight)))
    /\ inflight' = Tail(inflight)
    /\ UNCHANGED <<stdout, netThread, subscribed, connackSeen>>
    /\ UNCHANGED mainVars

Next ==
    \/ Connect
    \/ ConnectFail
    \/ LoopStart
    \/ Read
    \/ Evaluate
    \/ CheckAlerts
    \/ PrintAlert
    \/ Publish
    \/ Sleep
    \/ KeyboardInterrupt
    \/ RaiseException
    \/ ExceptKeyboardInterrupt
    \/ ExceptException
    \/ LoopStop
    \/ Disconnect
    \/ Exit
    \/ on_connect
    \/ on_message

Spec == Init /\ [][Next]_vars

-----------------------------------------------------------------------------
\* send_alerts on its own: the program stands at the call of send_alerts in
\* its first iteration, with any arguments (each of humidity and temperature
\* present or not, values on both sides of every threshold)
InitEval ==
    /\ pc = "evaluate"
    /\ \E h \in OptHumidity, t \in OptTemperature, s \in SoilArgs, l \in LightArgs :
          /\ humidity = h
          /\ temperature = t
          /\ soil_moisture = s
          /\ light_intensity = l
          /\ reads = <<<<h, t, s, l>>>>
    /\ alerts = None
    /\ idx = 0
    /\ stdout = <<>>
    /\ netout = <<>>
    /\ netThread = "running"
    /\ subscribed = FALSE
    /\ connackSeen = FALSE
    /\ inflight = <<>>
    /\ publishCalls = <<>>
    /\ clientCalls = <<"connect", "loop_start">>
    /\ exitCode = None
    /\ trace = <<Event("read", 1, None)>>
    /\ intAt = None
    /\ excAt = None

NextEval == Evaluate

SpecEval == InitEval /\ [][NextEval]_vars

-----------------------------------------------------------------------------
\* Auxiliary definitions of the properties
IsPrefix(a, b) == Len(a) <= Len(b) /\ SubSeq(b, 1, Len(a)) = a

Absent(snap) == IsNone(snap[1]) \/ IsNone(snap[2])

\* the alerts send_alerts returns for a snapshot, as a list (None gives none)
AlertsOfSnapshot(snap) ==
    LET r == send_alerts_ret(snap[1], snap[2], snap[3], snap[4])
    IN  IF IsNone(r) THEN <<>> ELSE Val(r)

RECURSIVE AlertsOf(_)
AlertsOf(rs) ==
    IF rs = <<>> THEN <<>>
    ELSE AlertsOf(SubSeq(rs, 1, Len(rs) - 1)) \o AlertsOfSnapshot(rs[Len(rs)])

\* payloads handed to client.publish, in order
Published == [i \in 1..Len(publishCalls) |-> publishCalls[i].payload]

\* alerts printed by the main loop (print(alert)), in order
PrintedLines == SelectSeq(stdout, LAMBDA ln : ln.tag = "alert")
Printed == [i \in 1..Len(PrintedLines) |-> PrintedLines[i].body]

DiagLine == Line("diag", Text(DHT_FAIL_TEXT))

Interrupted == ~IsNone(intAt)
Failed == ~IsNone(excAt)

-----------------------------------------------------------------------------
\* C1 as stated: when humidity or temperature is None, send_alerts returns a
\* list holding exactly one alert, the sensor-failure diagnostic.
C1_Original ==
    (pc = "check" /\ (IsNone(humidity) \/ IsNone(temperature)))
        => (~IsNone(alerts) /\ Len(Val(alerts)) = 1
            /\ Val(alerts)[1] = Text(DHT_FAIL_TEXT))

\* C1 amended: when humidity or temperature is None, the call of send_alerts
\* prints exactly one line, the sensor-failure diagnostic, and returns None:
\* no list, no threshold alert and no diagnostic alert is returned, whatever
\* the soil-moisture and light values are.
C1_Amended ==
    [][(pc = "evaluate" /\ (IsNone(humidity) \/ IsNone(temperature)))
          => /\ pc' = "check"
             /\ alerts' = None
             /\ ~Truthy(alerts')
             /\ stdout' = Append(stdout, DiagLine)]_vars

C1_Witness ==
    /\ pc = "check"
    /\ IsNone(temperature) /\ ~IsNone(humidity)
    /\ soil_moisture > MOISTURE_THRESHOLD
    /\ light_intensity < LIGHT_MIN
    /\ alerts = None
    /\ stdout = <<DiagLine>>

\* C2: with humidity and temperature present, send_alerts returns exactly the
\* sub-sequence of [moisture, temperature, light] alerts whose rule holds
\* (soil_moisture > 300; temperature < 15 or > 30; light_intensity < 0.2), in
\* that order; "too low" exactly when temperature < 15, "too high" exactly
\* when temperature > 30; values on the bounds give no alert.
C2_Expected ==
    LET t == Val(temperature)
    IN  (IF soil_moisture > 300 THEN <<Text(SOIL_TEXT)>> ELSE <<>>)
        \o (IF t < 15 * Scale
            THEN <<[text |-> "Temperature is too low. Current temp: ",
                    num |-> Some(Format2f(t))]>>
            ELSE IF t > 30 * Scale
            THEN <<[text |-> "Temperature is too high. Current temp: ",
                    num |-> Some(Format2f(t))]>>
            ELSE <<>>)
        \o (IF light_intensity < 20 THEN <<Text(LIGHT_TEXT)>> ELSE <<>>)

C2_ThresholdAlerts ==
    (pc = "check" /\ ~IsNone(humidity) /\ ~IsNone(temperature))
        => /\ alerts = Some(C2_Expected)
           /\ stdout = <<>>
           /\ (soil_moisture <= 300 /\ Val(temperature) >= 15 * Scale
               /\ Val(temperature) <= 30 * Scale /\ light_intensity >= 20)
                 => Val(alerts) = <<>>

C2_Witness ==
    /\ pc = "check"
    /\ ~IsNone(humidity)
    /\ temperature = Some(TEMP_HIGH)
    /\ soil_moisture = MOISTURE_THRESHOLD
    /\ light_intensity = LIGHT_MIN
    /\ alerts = Some(<<>>)

\* C3: every alert is printed before it is handed to client.publish: the
\* published alerts are always a prefix of the printed alerts, and when the
\* program stands at (or an exception came out of) client.publish the alert
\* concerned is already the last one printed.
C3_PrintBeforePublish ==
    /\ IsPrefix(Published, Printed)
    /\ Len(Printed) <= Len(Published) + 1
    /\ (pc = "publish" \/ excAt = Some("publish") \/ intAt = Some("publish"))
          => /\ Len(Printed) = Len(Published) + 1
             /\ Printed[Len(Printed)] = Val(alerts)[idx]

C3_Witness ==
    /\ excAt = Some("publish")
    /\ pc = "done"
    /\ Len(publishCalls) = 1
    /\ publishCalls[1].rc = "fail"
    /\ Len(Printed) = 2

\* the iteration in progress (or last started) read no temperature/humidity
LastReadAbsent == reads # <<>> /\ Absent(reads[Len(reads)])

\* C4: a failed temperature/humidity read does not stop the loop: in such an
\* iteration send_alerts can return without an exception, printing the
\* diagnostic; the loop then goes to the 60-second sleep without printing or
\* publishing an alert, and after the sleep the next read can take place.
C4_FailedReadContinues ==
    LastReadAbsent =>
        /\ pc = "evaluate" =>
              ENABLED (Evaluate /\ pc' = "check" /\ excAt' = None
                       /\ stdout' = Append(stdout, DiagLine))
        /\ pc = "check" => ENABLED (CheckAlerts /\ pc' = "sleep")
        /\ pc = "sleep" =>
              ENABLED (Sleep /\ pc' = "read"
                       /\ trace' = Append(trace, Event("sleep", Len(reads), Some(60))))
        /\ (pc = "read" /\ Len(reads) < MaxIter) =>
              ENABLED (Read /\ pc' = "evaluate" /\ Len(reads') = Len(reads) + 1)
        /\ pc \notin {"print", "publish"}
        /\ (pc \in {"check", "sleep", "read"} /\ Len(reads) = 1) => stdout = <<DiagLine>>

C4_Witness ==
    /\ Len(reads) = 2
    /\ Absent(reads[1])
    /\ ~Absent(reads[2])
    /\ pc = "publish"
    /\ stdout[1] = DiagLine
    /\ ~Interrupted /\ ~Failed

\* C5 as stated: when the loop is left because of an interrupt, every
\* iteration that was started has published all the alerts of its snapshot.
C5_Original ==
    Interrupted => Published = AlertsOf(reads)

\* C5 amended: an interrupt takes effect at whatever step of the iteration is
\* executing (read, evaluate, print, publish or sleep), not only in the sleep:
\* from then on nothing more is read, published or slept, so the alerts of the
\* current iteration not yet published are dropped (what was published is a
\* prefix of the alerts of the snapshots read); the handler prints the
\* termination message and goes to the teardown.
C5_Amended ==
    [][Interrupted' =>
          /\ pc' \notin TryPcs
          /\ IsPrefix(Published', AlertsOf(reads'))
          /\ UNCHANGED <<publishCalls, reads, trace>>
          /\ ~Interrupted => (pc' = "except_kbd" /\ intAt' = Some(pc))
          /\ (pc = "except_kbd" /\ pc' # pc) =>
                (pc' = "loop_stop"
                 /\ stdout' = Append(stdout, Line("term", Text(TERMINATE_TEXT))))]_vars

C5_Witness ==
    /\ pc = "done"
    /\ intAt = Some("publish")
    /\ Len(Published) < Len(AlertsOf(reads))
    /\ Len(Printed) = Len(Published) + 1

\* C6: an Exception raised at any step of an iteration is caught by the
\* handler around the loop, which logs it; no read, publish or sleep happens
\* afterwards and the program goes straight through the teardown to its end.
C6_ExceptionIsLoopFatal ==
    [][Failed' =>
          /\ pc' \notin TryPcs
          /\ UNCHANGED <<publishCalls, reads, trace>>
          /\ ~Failed => (pc' = "except_exc" /\ excAt' = Some(pc))
          /\ (pc = "except_exc" /\ pc' # pc) =>
                (pc' = "loop_stop"
                 /\ stdout' = Append(stdout, Line("error", Text(ERROR_TEXT))))
          /\ (pc = "loop_stop" /\ pc' # pc) => pc' = "disconnect"
          /\ (pc = "disconnect" /\ pc' # pc) => pc' = "exit"
          /\ (pc = "exit" /\ pc' # pc) => pc' = "done"]_vars

C6_Witness ==
    /\ pc = "done"
    /\ excAt = Some("read")
    /\ Len(reads) = 1
    /\ stdout # <<>>
    /\ stdout[Len(stdout)] = Line("error", Text(ERROR_TEXT))

\* C7 as stated: exit code 0 after an interrupt, non-zero after an exception
\* in the loop.
C7_Original ==
    pc = "done" =>
        /\ Interrupted => exitCode = Some(0)
        /\ Failed => (exitCode # None /\ exitCode # Some(0))

\* C7 amended: the process ends with exit code 0 when stopped by an interrupt
\* and also when stopped by an exception raised in the loop, since the
\* handler swallows it; the exit code is non-zero only when the exception
\* escapes main(), as when the connection to the broker fails before the loop.
C7_Amended ==
    pc = "done" =>
        /\ (Interrupted \/ Failed) => exitCode = Some(0)
        /\ (~Interrupted /\ ~Failed) => (exitCode = Some(1) /\ clientCalls = <<>>)

C7_Witness ==
    /\ pc = "done"
    /\ Failed
    /\ exitCode = Some(0)

\* C8: however the loop is left (interrupt or caught exception), loop_stop()
\* and then disconnect() are each called exactly once before the process
\* ends, and once disconnect() has been called the program is past the loop:
\* nothing is read or published after it.
C8_Teardown ==
    /\ (Interrupted \/ Failed) =>
          /\ pc \in {"except_kbd", "except_exc", "loop_stop"}
                => clientCalls = <<"connect", "loop_start">>
          /\ pc = "disconnect"
                => (clientCalls = <<"connect", "loop_start", "loop_stop">>
                    /\ netThread = "stopped")
          /\ pc \in {"exit", "done"}
                => (clientCalls = <<"connect", "loop_start", "loop_stop", "disconnect">>
                    /\ netThread = "stopped")
    /\ pc \in TryPcs => (~Interrupted /\ ~Failed
                         /\ clientCalls = <<"connect", "loop_start">>)
    /\ (pc = "done" /\ exitCode = Some(0)) => (Interrupted \/ Failed)

C8_Witness ==
    /\ pc = "done"
    /\ Interrupted
    /\ Len(publishCalls) > 0
    /\ clientCalls = <<"connect", "loop_start", "loop_stop", "disconnect">>

\* rank of an event inside its iteration
Rank(e) == CASE e.ev = "read" -> 0
             [] e.ev = "evaluate" -> 1
             [] e.ev = "publish" -> 2
             [] e.ev = "sleep" -> 3

\* payloads of the publish events of iteration k
PublishedIn(k) ==
    LET evs == SelectSeq(trace, LAMBDA e : e.ev = "publish" /\ e.it = k)
    IN  [i \in 1..Len(evs) |-> Val(evs[i].body)]

HasEvent(ev, k) == \E i \in 1..Len(trace) : trace[i].ev = ev /\ trace[i].it = k

\* C9: the events of the loop come in the order read, evaluate, publish (each
\* alert, in the order returned), sleep of 60 s, one iteration at a time: the
\* first event is a read; inside an iteration the order is fixed; a read that
\* is not the first follows the sleep of the previous iteration (so exactly
\* one sleep separates two consecutive reads, also when the iteration had no
\* alert or a failed sensor read); what an iteration publishes is a prefix of
\* the alerts of its own snapshot, and all of them once it sleeps.
C9_IterationOrder ==
    /\ trace # <<>> => (trace[1].ev = "read" /\ trace[1].it = 1)
    /\ \A i \in 1..(Len(trace) - 1) :
          LET a == trace[i]
              b == trace[i + 1]
          IN  \/ /\ a.it = b.it
                 /\ \/ Rank(a) < Rank(b)
                    \/ (a.ev = "publish" /\ b.ev = "publish")
                 /\ a.ev = "read" => b.ev = "evaluate"
              \/ /\ b.it = a.it + 1
                 /\ a.ev = "sleep" /\ a.body = Some(60)
                 /\ b.ev = "read"
    /\ \A k \in 1..Len(reads) :
          /\ HasEvent("read", k)
          /\ IsPrefix(PublishedIn(k), AlertsOfSnapshot(reads[k]))
          /\ PublishedIn(k) # <<>> => HasEvent("evaluate", k)
          /\ HasEvent("sleep", k) => PublishedIn(k) = AlertsOfSnapshot(reads[k])
    /\ Len(SelectSeq(trace, LAMBDA e : e.ev = "read")) = Len(reads)
    /\ Len(SelectSeq(trace, LAMBDA e : e.ev = "publish")) = Len(publishCalls)

C9_Witness ==
    /\ Len(reads) = 2
    /\ AlertsOfSnapshot(reads[1]) = <<>>
    /\ Len(AlertsOfSnapshot(reads[2])) = 3
    /\ pc = "read"
    /\ Len(trace) = 9

\* lines of on_message on the output of the network thread
Delivered == SelectSeq(netout, LAMBDA ln : ln.tag = "msg")
OkPublished == SelectSeq(publishCalls, LAMBDA c : c.rc = "ok")

\* C10: the callbacks of the network thread only log: a step that writes a
\* callback's line changes nothing the main loop owns (position, locals,
\* publish calls, lifecycle calls), every message delivered to on_message was
\* published by the main loop, and the published alerts are always a prefix
\* of the alerts of the snapshots read, so a received alert is never
\* published again.
C10_CallbackOnlyLogs ==
    /\ [](/\ IsPrefix(Published, AlertsOf(reads))
          /\ LET d == [i \in 1..Len(Delivered) |-> Delivered[i].body] \o inflight
                 n == Len(d)
                 m == Len(OkPublished)
             IN  /\ n <= m
                 /\ \A i \in 1..n : d[i] = OkPublished[m - n + i].payload)
    /\ [][netout' # netout => UNCHANGED mainVars /\ UNCHANGED stdout]_vars

C10_Witness ==
    /\ Len(Delivered) = 2
    /\ pc = "publish"
    /\ Len(publishCalls) = 2
    /\ inflight = <<>>

====
